---------------------------- MODULE Spec2Model ----------------------------
(***************************************************************************)
(* Lookup core of the bank products recommender service:                   *)
(*   - class Recommendations   (services/recsys_service/fastapi_app.py)    *)
(*   - class FastApiHandler    (services/recsys_service/fastapi_handler.py)*)
(* Two reference tables (per-user prediction flags "june_2016", popularity *)
(* ranking "default") and three request counters.                          *)
(*                                                                         *)
(* A pandas DataFrame is modelled by its rows: the prediction table is a   *)
(* sequence of rows [ncodpers, flags], the popularity table is the column  *)
(* 'eng_name' as a sequence of names whose index labels are 0..N-1.        *)
(* Python indices are 0-based, TLA+ sequences 1-based: label i is at i+1.  *)
(***************************************************************************)
EXTENDS Integers, Sequences, FiniteSets, TLC

VARIABLES
    impl,      \* which class the object is an instance of
    files,     \* contents of the two data files read by load
    recs,      \* self._recs : table kind -> None or the loaded table
    stats,     \* self._stats : counter name -> count
    ret,       \* the last completed call: operation, arguments, outcome
    returned,  \* number of lookups that have returned a list so far
    pending,   \* requests dispatched to the event loop and not yet served
    again,     \* whether the last lookup repeated the call before it
    http,      \* the last HTTP request and the endpoint that answered it
    ml         \* ml_service: the run of its FastApiHandler

vars == <<impl, files, recs, stats, ret, returned, pending, again, http, ml>>

\* state of the HTTP layer and of ml_service
aux == <<http, ml>>

---------------------------------------------------------------------------
(* Bounds *)

NumTracked == 2      \* len(topn_pop_prods_added_pred_cols), 17 in the source
MaxPop == 2          \* rows of the popularity table
MaxUser == 1         \* user ids 1..MaxUser may have a row; 0 never has one
MaxTopK == 2         \* largest explicit top_k
MaxNeg == 1          \* most negative top_k is -MaxNeg
MaxCalls == 2        \* lookups per behaviour
MaxPending == 2      \* requests in flight at once

(* Program constants *)

DefaultTopK == 7     \* default of the parameter top_k
HandlerLimit == 7    \* literal slice bound in FastApiHandler.get_user_recs

WITH_RECS == "existing_clients_with_recs_requests_count"
WO_RECS == "existing_clients_wo_recs_requests_count"
NEW_CLIENTS == "new_clients_requests_count"
CounterNames == {WITH_RECS, WO_RECS, NEW_CLIENTS}

---------------------------------------------------------------------------
(* Input domains *)

Min(a, b) == IF a < b THEN a ELSE b
Max(a, b) == IF a > b THEN a ELSE b

UserIds == 0..MaxUser
TopKs == ((0 - MaxNeg)..MaxTopK) \cup {DefaultTopK}
FlagVectors == [1..NumTracked -> {0, 1}]
JuneRows == [ncodpers : 1..MaxUser, flags : FlagVectors]

SeqsUpTo(S, n) == UNION {[1..m -> S] : m \in 0..n}

\* contents a june_2016 file can have: at most one row per client, in
\* ascending order of ncodpers
JuneTables ==
    {t \in SeqsUpTo(JuneRows, MaxUser) :
        \A i, j \in 1..Len(t) : i < j => t[i].ncodpers < t[j].ncodpers}

\* contents a popularity file can have: N distinct display names in rank
\* order.  The code never inspects a name, so a name is identified with the
\* rank of its row in the file: name n is the display name at label n - 1.
PopTables == {[n \in 1..N |-> n] : N \in 0..MaxPop}

Files == [june_2016 : JuneTables, default : PopTables]

\* top_k values of the requests dispatched concurrently
ConcTopKs == {1, DefaultTopK}

\* requests the event loop can hold: POST /get_recs handled by get_default
\* or by get_user_recs
Requests ==
    [op : {"get_default"}, user_id : {0}, top_k : ConcTopKs]
    \cup [op : {"get_user_recs"}, user_id : UserIds, top_k : ConcTopKs]

\* a slot of self._recs
None == [is_none |-> TRUE, df |-> <<>>]
DataFrame(t) == [is_none |-> FALSE, df |-> t]

---------------------------------------------------------------------------
(* Python / numpy / pandas primitives, as the code uses them *)

\* list[:k] and Series[:k] (positional slice; a negative k counts from the end)
SliceTo(s, k) ==
    LET n == Len(s)
        stop == IF k >= 0 THEN Min(k, n) ELSE Max(n + k, 0)
    IN SubSeq(s, 1, stop)

\* june_2016_recs[june_2016_recs['ncodpers'] == user_id]
RowsOf(june, user_id) == SelectSeq(june, LAMBDA r : r.ncodpers = user_id)

\* np.argwhere(v): the 0-based indices of the non-zero entries, ascending
argwhere(v) ==
    LET F[i \in 0..Len(v)] ==
            IF i = 0 THEN <<>>
            ELSE IF v[i] /= 0 THEN Append(F[i - 1], i - 1) ELSE F[i - 1]
    IN F[Len(v)]

\* ndarray.sum()
RECURSIVE SumSeq(_)
SumSeq(v) == IF v = <<>> THEN 0 ELSE Head(v) + SumSeq(Tail(v))

\* index labels of the popularity table
Labels(pop) == 0..(Len(pop) - 1)

\* pop_ranked_prods['eng_name'][idxs] for an array idxs of labels
\* (defined only when every label exists; a missing label is a KeyError)
eng_name_at(pop, idxs) == [j \in 1..Len(idxs) |-> pop[idxs[j] + 1]]

\* self._stats[name] += 1
Inc(st, name) == [st EXCEPT ![name] = @ + 1]

\* outcome of a call: a returned list, or an escaping exception
Return(list, st) == [raised |-> "", recs |-> list, stats |-> st]
Raise(exc, st) == [raised |-> exc, recs |-> <<>>, stats |-> st]

---------------------------------------------------------------------------
(* class Recommendations *)

\* variant of the personal list that is filled up with the popular products
Recommendations_with_recs_padded(pop, rec_prods_idxs, top_k) ==
    SliceTo(eng_name_at(pop, rec_prods_idxs) \o pop, top_k)

\* the list built in the inner try: eng_name[rec_prods_idxs] cut to top_k
Recommendations_with_recs(pop, rec_prods_idxs, top_k) ==
    SliceTo(eng_name_at(pop, rec_prods_idxs), top_k)

\* the outer bare except: popular products for a client that was not found
Recommendations_outer_except(top_k) ==
    LET pop_ranked_prods == recs["default"]
    IN IF pop_ranked_prods.is_none
       THEN Raise("TypeError", stats)     \* None['eng_name']
       ELSE Return(SliceTo(pop_ranked_prods.df, top_k), stats)

\* variant of the inner except that offers the popular products to a client
\* whose flags are all zero
Recommendations_inner_except_fallback(top_k) ==
    Recommendations_outer_except(top_k)

\* the inner bare except: the client is counted as "without recs"
Recommendations_inner_except(top_k) ==
    Return(<<>>, Inc(stats, WO_RECS))

\* variant of get_default that pages through the ranking: each call starts
\* after the names the earlier calls have served
Recommendations_get_default_paging(top_k) ==
    LET pop_ranked_prods == recs["default"]
        served == Min(stats[NEW_CLIENTS], Len(pop_ranked_prods.df))
    IN IF pop_ranked_prods.is_none
       THEN Raise("TypeError", stats)
       ELSE Return(SliceTo(SubSeq(pop_ranked_prods.df, served + 1,
                                  Len(pop_ranked_prods.df)), top_k),
                   Inc(stats, NEW_CLIENTS))

Recommendations_get_default(top_k) ==
    LET pop_ranked_prods == recs["default"]
    IN IF pop_ranked_prods.is_none
       THEN Raise("TypeError", stats)     \* None['eng_name']
       ELSE Return(SliceTo(pop_ranked_prods.df, top_k),
                   Inc(stats, NEW_CLIENTS))

Recommendations_get_user_recs(user_id, top_k) ==
    LET june_2016_recs == recs["june_2016"]
        pop_ranked_prods == recs["default"]
    IN IF june_2016_recs.is_none                       \* TypeError
          \/ RowsOf(june_2016_recs.df, user_id) = <<>> \* IndexError: [0]
       THEN Recommendations_outer_except(top_k)
       ELSE LET topn_prods == RowsOf(june_2016_recs.df, user_id)[1].flags
                found == argwhere(topn_prods)
            IN IF found = <<>>                         \* IndexError: [0]
                  \/ pop_ranked_prods.is_none          \* TypeError
                  \/ found[1] \notin Labels(pop_ranked_prods.df) \* KeyError
               THEN Recommendations_inner_except(top_k)
               ELSE Return(Recommendations_with_recs(pop_ranked_prods.df,
                                                     <<found[1]>>, top_k),
                           Inc(stats, WITH_RECS))

---------------------------------------------------------------------------
(* class FastApiHandler (recsys_service) *)

\* the slice bound the handler applies to its lists
FastApiHandler_limit(top_k) == HandlerLimit

FastApiHandler_get_pop_recs(top_k) ==
    LET pop_ranked_prods == recs["default"]
    IN IF pop_ranked_prods.is_none
       THEN Raise("TypeError", stats)
       ELSE Return(SliceTo(pop_ranked_prods.df, top_k),
                   Inc(stats, NEW_CLIENTS))

FastApiHandler_get_user_recs(user_id, top_k) ==
    LET june_2016_recs == recs["june_2016"]
        pop_ranked_prods == recs["default"]
    IN IF june_2016_recs.is_none
       THEN Raise("TypeError", stats)     \* not an IndexError: escapes
       ELSE
         LET user_df == RowsOf(june_2016_recs.df, user_id)
         IN IF user_df = <<>>
            THEN \* except IndexError: the client is treated as new
                 IF pop_ranked_prods.is_none
                 THEN Raise("TypeError", stats)
                 ELSE Return(SliceTo(pop_ranked_prods.df,
                                     FastApiHandler_limit(top_k)),
                             Inc(stats, NEW_CLIENTS))
            ELSE
              LET user_prods == user_df[1].flags
              IN IF SumSeq(user_prods) /= 0
                 THEN LET recommended_prods_idxs == <<argwhere(user_prods)[1]>>
                      IN IF pop_ranked_prods.is_none
                         THEN Raise("TypeError", stats)
                         ELSE IF recommended_prods_idxs[1]
                                    \notin Labels(pop_ranked_prods.df)
                         THEN Raise("KeyError", stats)
                         ELSE Return(
                                SliceTo(eng_name_at(pop_ranked_prods.df,
                                                    recommended_prods_idxs),
                                        FastApiHandler_limit(top_k)),
                                Inc(stats, WITH_RECS))
                 ELSE Return(<<>>, Inc(stats, WO_RECS))

---------------------------------------------------------------------------
(* State machine: one object, its methods called one after another *)

ZeroStats == [c \in CounterNames |-> 0]

\* no request in flight
NoPending == [r \in Requests |-> 0]

RECURSIVE SumOver(_, _)
SumOver(f, S) ==
    IF S = {} THEN 0
    ELSE LET x == CHOOSE y \in S : TRUE IN f[x] + SumOver(f, S \ {x})

\* number of requests in flight
InFlight == SumOver(pending, Requests)

\* no HTTP request yet; no ml_service run
NoHttp ==
    [method |-> "", path |-> "", has_user_id |-> FALSE, user_id |-> 0,
     endpoint |-> ""]
NoResponse == [status |-> "", message |-> "", has_recs |-> FALSE]
NoMl ==
    [pc |-> "none", files |-> <<>>, params |-> <<>>, request |-> <<>>,
     exc |-> "", response |-> NoResponse]

Call(op, user_id, top_k, out) ==
    [op |-> op, user_id |-> user_id, top_k |-> top_k,
     raised |-> out.raised, recs |-> out.recs, before |-> stats]

\* Recommendations(): both slots None, counters zero
InitRecommendations ==
    /\ impl = "Recommendations"
    /\ files \in Files
    /\ recs = [k \in {"june_2016", "default"} |-> None]
    /\ stats = ZeroStats
    /\ ret = Call("__init__", 0, 0, Return(<<>>, ZeroStats))
    /\ returned = 0
    /\ pending = NoPending
    /\ again = "no"
    /\ http = NoHttp
    /\ ml = NoMl

\* FastApiHandler(...): the constructor loads both tables, then zeroes the
\* counters; a failing read raises out of the constructor (no object)
InitFastApiHandler ==
    /\ impl = "FastApiHandler"
    /\ files \in Files
    /\ recs = [k \in {"june_2016", "default"} |-> DataFrame(files[k])]
    /\ stats = ZeroStats
    /\ ret = Call("__init__", 0, 0, Return(<<>>, ZeroStats))
    /\ returned = 0
    /\ pending = NoPending
    /\ again = "no"
    /\ http = NoHttp
    /\ ml = NoMl

Init == InitRecommendations \/ InitFastApiHandler

\* "same" when the call op(user_id, top_k) repeats the call completed just
\* before it and has the same outcome, "differs" when it repeats it with
\* another outcome, "no" when it is not a repetition
RepeatOf(op, user_id, top_k, out) ==
    IF ret.op = op /\ ret.user_id = user_id /\ ret.top_k = top_k
    THEN IF out.recs = ret.recs /\ out.raised = ret.raised
         THEN "same" ELSE "differs"
    ELSE "no"

\* variant of a finished lookup that cuts the stored popularity table down
\* to the list it returned
Finish_truncating(op, user_id, top_k, out) ==
    /\ stats' = out.stats
    /\ ret' = Call(op, user_id, top_k, out)
    /\ returned' = IF out.raised = "" THEN returned + 1 ELSE returned
    /\ again' = RepeatOf(op, user_id, top_k, out)
    /\ recs' = IF out.raised = "" /\ ~recs["default"].is_none
                  /\ op /= "get_user_recs"
               THEN [recs EXCEPT !["default"] = DataFrame(out.recs)]
               ELSE recs
    /\ UNCHANGED <<impl, files, pending, aux>>

\* a lookup that has finished with outcome out
Finish(op, user_id, top_k, out) ==
    /\ stats' = out.stats
    /\ ret' = Call(op, user_id, top_k, out)
    /\ returned' = IF out.raised = "" THEN returned + 1 ELSE returned
    /\ again' = RepeatOf(op, user_id, top_k, out)
    /\ UNCHANGED <<impl, files, recs, pending, aux>>

\* load(type, path): the file is read into the slot; a failing read raises
\* and leaves the slot as it was
LoadJune ==
    /\ recs' = [recs EXCEPT !["june_2016"] = DataFrame(files["june_2016"])]
    /\ ret' = Call("load", 0, 0, Return(<<>>, stats))
    /\ again' = "no"
    /\ UNCHANGED <<impl, files, stats, returned, pending, aux>>

LoadDefault ==
    /\ recs' = [recs EXCEPT !["default"] = DataFrame(files["default"])]
    /\ ret' = Call("load", 0, 0, Return(<<>>, stats))
    /\ again' = "no"
    /\ UNCHANGED <<impl, files, stats, returned, pending, aux>>

LoadFails ==
    /\ ret' = Call("load", 0, 0, Raise("OSError", stats))
    /\ again' = "no"
    /\ UNCHANGED <<impl, files, recs, stats, returned, pending, aux>>

RecommendationsGetDefault ==
    /\ impl = "Recommendations"
    /\ returned < MaxCalls
    /\ \E top_k \in TopKs :
          Finish("get_default", 0, top_k, Recommendations_get_default(top_k))

RecommendationsGetUserRecs ==
    /\ impl = "Recommendations"
    /\ returned < MaxCalls
    /\ \E user_id \in UserIds, top_k \in TopKs :
          Finish("get_user_recs", user_id, top_k,
                 Recommendations_get_user_recs(user_id, top_k))

FastApiHandlerGetPopRecs ==
    /\ impl = "FastApiHandler"
    /\ returned < MaxCalls
    /\ \E top_k \in TopKs :
          Finish("get_pop_recs", 0, top_k, FastApiHandler_get_pop_recs(top_k))

FastApiHandlerGetUserRecs ==
    /\ impl = "FastApiHandler"
    /\ returned < MaxCalls
    /\ \E user_id \in UserIds, top_k \in TopKs :
          Finish("get_user_recs", user_id, top_k,
                 FastApiHandler_get_user_recs(user_id, top_k))

\* variant of stats() that clears the counters once they are reported
Stats_resetting ==
    /\ ret' = Call("stats", 0, 0, Return(<<>>, stats))
    /\ stats' = ZeroStats
    /\ again' = "no"
    /\ UNCHANGED <<impl, files, recs, returned, pending, aux>>

\* stats(): logs the counters, changes none
Stats ==
    /\ ret' = Call("stats", 0, 0, Return(<<>>, stats))
    /\ again' = "no"
    /\ UNCHANGED <<impl, files, recs, stats, returned, pending, aux>>

Next ==
    \/ LoadJune
    \/ LoadDefault
    \/ LoadFails
    \/ RecommendationsGetDefault
    \/ RecommendationsGetUserRecs
    \/ FastApiHandlerGetPopRecs
    \/ FastApiHandlerGetUserRecs
    \/ Stats

Spec == Init /\ [][Next]_vars

---------------------------------------------------------------------------
(* The service under concurrent load: recs_store behind the async endpoints.
   lifespan has loaded both tables; requests are dispatched to the event
   loop and served in any order.  The endpoints are `async def` and the
   methods contain no await, so each request is served in one step. *)

\* lifespan(): recs_store.load('june_2016', ...); recs_store.load('default', ...)
InitConcurrent ==
    /\ impl = "Recommendations"
    /\ files \in Files
    /\ recs = [k \in {"june_2016", "default"} |-> DataFrame(files[k])]
    /\ stats = ZeroStats
    /\ ret = Call("load", 0, 0, Return(<<>>, ZeroStats))
    /\ returned = 0
    /\ pending = NoPending
    /\ again = "no"
    /\ http = NoHttp
    /\ ml = NoMl

\* a client sends a request for the popular products or for a user id that
\* has no row in the prediction table
Dispatch ==
    /\ InFlight < MaxPending
    /\ returned + InFlight < MaxCalls
    /\ \E r \in Requests :
          /\ r.op = "get_user_recs" =>
                RowsOf(recs["june_2016"].df, r.user_id) = <<>>
          /\ pending' = [pending EXCEPT ![r] = @ + 1]
    /\ UNCHANGED <<impl, files, recs, stats, ret, returned, again, aux>>

\* recommendations_default: recs_store.get_default(top_k)
ServeDefault ==
    \E r \in Requests :
       /\ r.op = "get_default"
       /\ pending[r] > 0
       /\ LET out == Recommendations_get_default(r.top_k)
          IN /\ stats' = out.stats
             /\ ret' = Call(r.op, r.user_id, r.top_k, out)
             /\ returned' = IF out.raised = "" THEN returned + 1 ELSE returned
       /\ pending' = [pending EXCEPT ![r] = @ - 1]
       /\ UNCHANGED <<impl, files, recs, again, aux>>

\* recommendations_offline: recs_store.get_user_recs(user_id, top_k)
ServeOffline ==
    \E r \in Requests :
       /\ r.op = "get_user_recs"
       /\ pending[r] > 0
       /\ LET out == Recommendations_get_user_recs(r.user_id, r.top_k)
          IN /\ stats' = out.stats
             /\ ret' = Call(r.op, r.user_id, r.top_k, out)
             /\ returned' = IF out.raised = "" THEN returned + 1 ELSE returned
       /\ pending' = [pending EXCEPT ![r] = @ - 1]
       /\ UNCHANGED <<impl, files, recs, again, aux>>

NextConcurrent ==
    \/ Dispatch
    \/ ServeDefault
    \/ ServeOffline

SpecConcurrent == InitConcurrent /\ [][NextConcurrent]_vars

---------------------------------------------------------------------------
(* The HTTP layer of recsys_service: the routes of app and how a request
   reaches an endpoint.  lifespan has loaded both tables. *)

\* the routes in the order the decorators register them
Routes ==
    << [method |-> "GET", path |-> "/", endpoint |-> "read_root"],
       [method |-> "POST", path |-> "/get_recs",
        endpoint |-> "recommendations_default"],
       [method |-> "POST", path |-> "/get_recs",
        endpoint |-> "recommendations_offline"] >>

\* the router hands a request to the first registered route whose method
\* and path match; query parameters take no part in the match
RouteOf(method, path) ==
    LET hits == {i \in DOMAIN Routes :
                    Routes[i].method = method /\ Routes[i].path = path}
    IN IF hits = {} THEN "not_found"
       ELSE Routes[CHOOSE i \in hits : \A j \in hits : i <= j].endpoint

\* what an endpoint does with the query parameters of the request:
\* the method of recs_store it runs, or a 422 for a missing required one
EndpointCall(endpoint, has_user_id, user_id, top_k) ==
    IF endpoint = "recommendations_default"
    THEN [op |-> "get_default", user_id |-> 0,
          out |-> Recommendations_get_default(top_k)]
    ELSE IF endpoint = "recommendations_offline" /\ has_user_id
    THEN [op |-> "get_user_recs", user_id |-> user_id,
          out |-> Recommendations_get_user_recs(user_id, top_k)]
    ELSE [op |-> "http_422", user_id |-> 0,
          out |-> Raise("RequestValidationError", stats)]

\* POST /get_recs?top_k=..[&user_id=..]  (generate_requests.get_default and
\* generate_requests.get_user_recs send exactly these)
HttpPostGetRecs ==
    /\ returned < MaxCalls
    /\ \E has_user_id \in BOOLEAN, user_id \in UserIds, top_k \in TopKs :
          LET endpoint == RouteOf("POST", "/get_recs")
              c == EndpointCall(endpoint, has_user_id, user_id, top_k)
          IN /\ has_user_id \/ user_id = 0
             /\ http' = [method |-> "POST", path |-> "/get_recs",
                         has_user_id |-> has_user_id, user_id |-> user_id,
                         endpoint |-> endpoint]
             /\ stats' = c.out.stats
             /\ ret' = Call(c.op, c.user_id, top_k, c.out)
             /\ returned' = IF c.out.raised = "" THEN returned + 1
                            ELSE returned
             /\ again' = RepeatOf(c.op, c.user_id, top_k, c.out)
    /\ UNCHANGED <<impl, files, recs, pending, ml>>

\* GET / : read_root
HttpGetRoot ==
    /\ http' = [method |-> "GET", path |-> "/", has_user_id |-> FALSE,
                user_id |-> 0, endpoint |-> RouteOf("GET", "/")]
    /\ ret' = Call("read_root", 0, 0, Return(<<>>, stats))
    /\ again' = "no"
    /\ UNCHANGED <<impl, files, recs, stats, returned, pending, ml>>

NextHttp ==
    \/ HttpPostGetRecs
    \/ HttpGetRoot

SpecHttp == InitConcurrent /\ [][NextHttp]_vars

---------------------------------------------------------------------------
(* ml_service: class FastApiHandler of services/ml_service/fastapi_handler.py,
   run by main() and by the application object of ml_service/fastapi_app.py.
   A model_params dict is a function from its keys to values [type, val]. *)

\* the four resources, in the order __init__ loads and handle tests them
Resources == <<"test_data", "pop_ranked_prods", "data_preprocessor", "clf">>
ResourceNames == {Resources[i] : i \in DOMAIN Resources}

\* self.required_model_params
required_model_params == [k \in {"ncodpers", "top_k"} |-> {"int"}]

ParamKeys == {"ncodpers", "top_k", "studio"}
ParamValues == [type : {"int", "str"}, val : {0 - 1, 7}]
ModelParams == UNION {[K -> ParamValues] : K \in SUBSET ParamKeys}

\* test_params['model_params'] of main()
MainParams == [k \in {"ncodpers", "top_k"} |-> [type |-> "int", val |-> 7]]

\* parameter names of the four load methods, and the keyword with which
\* __init__ passes the path to each
LoaderParam ==
    [test_data |-> "data_path",
     pop_ranked_prods |-> "pop_ranked_prods_path",
     data_preprocessor |-> "data_preprocessor_path",
     clf |-> "model_path"]
InitKeyword ==
    [test_data |-> "test_data_path",
     pop_ranked_prods |-> "pop_ranked_prods_path",
     data_preprocessor |-> "data_preprocessor_path",
     clf |-> "model_path"]

\* the attribute a load method leaves behind: load_test_data and
\* load_pop_ranked_prods store a DataFrame, load_data_preprocessor an object,
\* each None on failure; load_model stores the classifier in self.cb_clf and
\* sets self.clf (to None) only on failure
Loaded(r, ok) ==
    IF r = "clf" THEN (IF ok THEN "unset" ELSE "None")
    ELSE IF ~ok THEN "None"
    ELSE IF r = "data_preprocessor" THEN "object"
    ELSE "DataFrame"

\* FastApiHandler.__init__: the handler object, or the exception that
\* escapes the constructor (a keyword the load method does not have)
ml_init(loadable) ==
    IF \E r \in ResourceNames : InitKeyword[r] /= LoaderParam[r]
    THEN [exc |-> "TypeError", obj |-> [r \in ResourceNames |-> "unset"]]
    ELSE [exc |-> "", obj |-> [r \in ResourceNames |-> Loaded(r, loadable[r])]]

\* `not x`: "True"/"False", or the exception the test raises
Not(x) ==
    CASE x = "None" -> "True"
      [] x = "DataFrame" -> "ValueError"         \* ambiguous truth value
      [] x = "unset" -> "AttributeError"
      [] OTHER -> "False"

ErrorResponse(msg) == [status |-> "Error", message |-> msg, has_recs |-> FALSE]

NotFoundMessage ==
    [test_data |-> "Test data not found",
     pop_ranked_prods |-> "Products data not found",
     data_preprocessor |-> "Data preprocessor not found",
     clf |-> "Classifier not found"]

\* check_required_model_params: "True", the error message, or the exception
check_required_model_params(model_params) ==
    LET keys == DOMAIN model_params \ {"studio"}
    IN IF keys /= DOMAIN required_model_params
       THEN "There are missing or extra model params"
       ELSE IF \E k \in keys :
                  model_params[k].type \notin required_model_params[k]
       THEN "Some features in model params have wrong value type"
       ELSE IF \E k \in keys : model_params[k].val < 0
       THEN "Some numerical features in model params are negative"
       ELSE IF "build_year" \notin keys
       THEN "KeyError"                            \* model_params['build_year']
       ELSE "True"

\* generate_recommendations: reads model_params['build_year']
generate_recommendations(model_params) ==
    IF "build_year" \notin DOMAIN model_params THEN "KeyError"
    ELSE "AttributeError"                         \* self.pipeline

\* FastApiHandler.handle: the if/elif chain over the resources from the i-th
\* on, then validation and generation; every exception is caught
RECURSIVE handle_from(_, _, _)
handle_from(i, obj, model_params) ==
    IF i <= Len(Resources)
    THEN LET t == Not(obj[Resources[i]])
         IN IF t = "True" THEN ErrorResponse(NotFoundMessage[Resources[i]])
            ELSE IF t = "False" THEN handle_from(i + 1, obj, model_params)
            ELSE ErrorResponse("Problem with request")
    ELSE LET v == check_required_model_params(model_params)
         IN IF v = "KeyError" THEN ErrorResponse("Problem with request")
            ELSE IF v /= "True" THEN ErrorResponse(v)
            ELSE IF generate_recommendations(model_params)
                       \in {"KeyError", "AttributeError"}
            THEN ErrorResponse("Problem with request")
            ELSE [status |-> "OK", message |-> "", has_recs |-> TRUE]

handle(obj, model_params) == handle_from(1, obj, model_params)

\* construct the handler, then handle one request
MlRun(model_params) ==
    LET h == ml_init(ml.files)
    IN ml' = IF h.exc /= ""
             THEN [ml EXCEPT !.pc = "raised", !.exc = h.exc,
                             !.request = model_params]
             ELSE [ml EXCEPT !.pc = "handled", !.request = model_params,
                             !.response = handle(h.obj, model_params)]

InitMl ==
    /\ impl = "ml_service.FastApiHandler"
    /\ files = [june_2016 |-> <<>>, default |-> <<>>]
    /\ recs = [k \in {"june_2016", "default"} |-> None]
    /\ stats = ZeroStats
    /\ ret = Call("__init__", 0, 0, Return(<<>>, ZeroStats))
    /\ returned = 0
    /\ pending = NoPending
    /\ again = "no"
    /\ http = NoHttp
    /\ \E loadable \in [ResourceNames -> BOOLEAN], params \in ModelParams :
          ml = [pc |-> "start", files |-> loadable, params |-> params,
                request |-> <<>>, exc |-> "", response |-> NoResponse]

\* main(): handler = FastApiHandler(...); handler.handle(test_params)
MlMain ==
    /\ ml.pc = "start"
    /\ MlRun(MainParams)
    /\ UNCHANGED <<impl, files, recs, stats, ret, returned, pending, again,
                   http>>

\* app = FastAPIWrapper().get_app(), then get_recs_for_client(model_params)
MlGetRecsForClient ==
    /\ ml.pc = "start"
    /\ MlRun(ml.params)
    /\ UNCHANGED <<impl, files, recs, stats, ret, returned, pending, again,
                   http>>

NextMl ==
    \/ MlMain
    \/ MlGetRecsForClient

SpecMl == InitMl /\ [][NextMl]_vars

---------------------------------------------------------------------------
(* Vocabulary of the properties *)

june_2016 == recs["june_2016"]
popular == recs["default"]
BothLoaded == ~june_2016.is_none /\ ~popular.is_none

IsLookup == ret.op \in {"get_default", "get_pop_recs", "get_user_recs"}
IsUserLookup == ret.op = "get_user_recs"

\* the user id of the last call has a row in the prediction table
Present == ~june_2016.is_none /\ RowsOf(june_2016.df, ret.user_id) /= <<>>
Absent == ~june_2016.is_none /\ RowsOf(june_2016.df, ret.user_id) = <<>>

\* the flag vector of that user and the tracked products it flags (0-based)
FlagsOfUser == RowsOf(june_2016.df, ret.user_id)[1].flags
Flagged == {i \in 0..(NumTracked - 1) : FlagsOfUser[i + 1] /= 0}
AllFalse == Present /\ Flagged = {}
SomeFlag == Present /\ Flagged /= {}

\* every flagged product has a row in the popularity table
FlaggedResolve == ~popular.is_none /\ Flagged \subseteq Labels(popular.df)

\* the display names of all flagged products, in tracked-product order
AllFlaggedNames == eng_name_at(popular.df, argwhere(FlagsOfUser))

\* the counter a lookup has to increment
TierOfCall ==
    IF ret.op \in {"get_default", "get_pop_recs"} \/ Absent THEN NEW_CLIENTS
    ELSE IF AllFalse THEN WO_RECS
    ELSE WITH_RECS

StatsTotal == stats[WITH_RECS] + stats[WO_RECS] + stats[NEW_CLIENTS]

---------------------------------------------------------------------------
(* Properties *)

\* C1: for a user with a row and at least one flag set, and top_k >= 1,
\* Recommendations.get_user_recs returns the display names of ALL flagged
\* products in tracked-product order, cut to top_k (here for consistent
\* data: popularity table loaded and holding every flagged product).
C1_AllFlaggedReturned ==
    (/\ impl = "Recommendations"
     /\ IsUserLookup
     /\ SomeFlag
     /\ FlaggedResolve
     /\ ret.top_k >= 1)
    => /\ ret.raised = ""
       /\ ret.recs = SliceTo(AllFlaggedNames, ret.top_k)
       /\ Len(ret.recs) = Min(ret.top_k, Cardinality(Flagged))

\* C2: on a loaded store every lookup that returns has incremented exactly
\* the counter of its tier by 1 (absent user id -> new_clients, all-false
\* vector -> wo_recs, a set flag -> with_recs), so the three counters sum to
\* the number of lookups returned.
C2_EveryLookupCounted ==
    (/\ IsLookup
     /\ ret.raised = ""
     /\ BothLoaded
     /\ SomeFlag => FlaggedResolve)
    => /\ stats = Inc(ret.before, TierOfCall)
       /\ StatsTotal = returned

\* C3: while a table slot of _recs is still None, every get_user_recs call
\* fails with an error; it never returns a list.
C3_UnloadedStoreFails ==
    (IsUserLookup /\ ~BothLoaded) => ret.raised /= ""

\* C4: for a user id without a row and top_k >= 0, Recommendations.
\* get_user_recs and get_default return the first min(top_k, N) names of the
\* popularity table in rank order and count the request as a new client.
C4_AbsentUserFallback ==
    (/\ impl = "Recommendations"
     /\ IsLookup
     /\ BothLoaded
     /\ ret.op = "get_user_recs" => Absent
     /\ ret.top_k >= 0)
    => /\ ret.raised = ""
       /\ ret.recs = SubSeq(popular.df, 1, Min(ret.top_k, Len(popular.df)))
       /\ stats = Inc(ret.before, NEW_CLIENTS)

\* the list half of C4 alone (holds in Recommendations)
FallbackListIsPopularPrefix ==
    (/\ impl = "Recommendations"
     /\ IsLookup
     /\ BothLoaded
     /\ ret.op = "get_user_recs" => Absent
     /\ ret.top_k >= 0)
    => /\ ret.raised = ""
       /\ ret.recs = SubSeq(popular.df, 1, Min(ret.top_k, Len(popular.df)))

\* C5: for a user with a row whose flags are all false and top_k > 0,
\* get_user_recs of both classes returns the empty list and increments
\* existing_clients_wo_recs_requests_count (and no other counter).
C5_AllFalseIsEmpty ==
    (IsUserLookup /\ AllFalse /\ ret.top_k > 0)
    => /\ ret.raised = ""
       /\ ret.recs = <<>>
       /\ stats = Inc(ret.before, WO_RECS)

\* witness of C5: such a call has returned while the popularity table
\* holds names the call could have fallen back to
C5_Witness ==
    /\ impl = "Recommendations"
    /\ IsUserLookup /\ AllFalse /\ ret.top_k > 0
    /\ ret.raised = ""
    /\ ~popular.is_none /\ Len(popular.df) >= 2

\* C6: for a user with at least one flag set, every name get_user_recs
\* returns is the display name of a product flagged for that user, and the
\* list is no longer than the number of flagged products.
C6_OnlyFlaggedNames ==
    (IsUserLookup /\ SomeFlag /\ ret.raised = "")
    => /\ \A j \in 1..Len(ret.recs) :
             \E i \in Flagged \cap Labels(popular.df) :
                ret.recs[j] = popular.df[i + 1]
       /\ Len(ret.recs) <= Cardinality(Flagged)

\* witness of C6: a personal list was returned although top_k and the
\* popularity table would have allowed more names
C6_Witness ==
    /\ impl = "Recommendations"
    /\ IsUserLookup /\ SomeFlag /\ ret.raised = ""
    /\ Len(ret.recs) >= 1
    /\ ret.top_k > Cardinality(Flagged)
    /\ Len(popular.df) > Cardinality(Flagged)

\* C7: a negative top_k is clamped to zero: every lookup of Recommendations
\* with top_k < 0 returns the empty list, as with top_k = 0.
C7_NegativeTopKClamped ==
    (/\ impl = "Recommendations"
     /\ IsLookup
     /\ ret.raised = ""
     /\ ret.top_k < 0)
    => ret.recs = <<>>

\* C8: with top_k = 0 a lookup of Recommendations returns the empty list in
\* every tier and still increments the counter of its tier by 1.
C8_ZeroTopK ==
    (/\ impl = "Recommendations"
     /\ IsLookup
     /\ BothLoaded
     /\ SomeFlag => FlaggedResolve
     /\ ret.top_k = 0)
    => /\ ret.raised = ""
       /\ ret.recs = <<>>
       /\ stats = Inc(ret.before, TierOfCall)

\* C9: once all N concurrently dispatched lookups for absent user ids have
\* returned, new_clients_requests_count equals N.
C9_NoLostIncrement ==
    InFlight = 0 => stats[NEW_CLIENTS] = returned

\* C10: the list returned by FastApiHandler.get_user_recs has at most top_k
\* entries, for every user id and every top_k >= 0.
C10_HandlerBoundedByTopK ==
    (/\ impl = "FastApiHandler"
     /\ IsUserLookup
     /\ ret.raised = ""
     /\ ret.top_k >= 0)
    => Len(ret.recs) <= ret.top_k

\* the flagged products that have a row in the popularity table, ascending
ResolvingIdxs ==
    SelectSeq(argwhere(FlagsOfUser), LAMBDA i : i \in Labels(popular.df))

\* C11: when a flagged product of the user has no row in the popularity
\* table, get_user_recs raises no error, returns the names of the flagged
\* products that do resolve (cut to top_k) and counts the request in
\* existing_clients_with_recs_requests_count.
C11_GapSkippedPerEntry ==
    (/\ IsUserLookup
     /\ SomeFlag
     /\ ~popular.is_none
     /\ ~FlaggedResolve
     /\ ret.top_k >= 1)
    => /\ ret.raised = ""
       /\ ret.recs = SliceTo(eng_name_at(popular.df, ResolvingIdxs), ret.top_k)
       /\ stats = Inc(ret.before, WITH_RECS)

\* C12: with no load in between, a lookup that repeats the call completed
\* just before it (same method, same user_id, same top_k) returns the same
\* list, whatever the counters have become.
C12_RepeatedLookupSameList ==
    (IsLookup /\ again /= "no") => again = "same"

\* witness of C12: a repeated lookup returned a non-empty list after the
\* first one had changed a counter
C12_Witness ==
    /\ impl = "Recommendations"
    /\ IsLookup /\ again = "same"
    /\ ret.raised = "" /\ ret.recs /= <<>>
    /\ ret.before /= ZeroStats
    /\ stats /= ret.before

\* C13: the three counters start at zero and no step (lookup, load,
\* stats) ever decreases one of them.
C13_CountersMonotonic ==
    /\ stats = ZeroStats
    /\ [][\A c \in CounterNames : stats'[c] >= stats[c]]_vars

\* witness of C13: stats() has run while counters were above zero
C13_Witness ==
    /\ ret.op = "stats"
    /\ StatsTotal >= 2

\* C14: a step of get_default, get_pop_recs, get_user_recs or stats leaves
\* both reference tables (and the files behind them) as they were.
C14_LookupsLeaveTables ==
    [][ret'.op \in {"get_default", "get_pop_recs", "get_user_recs", "stats"}
         => recs' = recs /\ files' = files]_vars

\* witness of C14: lookups have returned names from loaded tables
C14_Witness ==
    /\ IsLookup /\ BothLoaded
    /\ ret.raised = "" /\ ret.recs /= <<>>
    /\ Len(ret.recs) < Len(popular.df)
    /\ returned >= 2

\* C15: a POST /get_recs that carries a user_id is answered by
\* recommendations_offline, i.e. by get_user_recs(user_id, top_k); only a
\* request without user_id is answered by recommendations_default.
C15_UserIdRoutedToOffline ==
    (http.method = "POST" /\ http.path = "/get_recs")
    => /\ http.has_user_id
            => /\ http.endpoint = "recommendations_offline"
               /\ ret.op = "get_user_recs"
               /\ ret.user_id = http.user_id
       /\ ~http.has_user_id
            => /\ http.endpoint = "recommendations_default"
               /\ ret.op = "get_default"

\* C16: when all four resources load and the request is the one of main()
\* (exactly ncodpers and top_k, non-negative ints), the run ends with a
\* response of status 'OK' that has a 'recs' field, and no exception escapes.
C16_MainRequestAnswered ==
    (/\ ml.pc \in {"handled", "raised"}
     /\ \A r \in ResourceNames : ml.files[r]
     /\ ml.request = MainParams)
    => /\ ml.pc = "handled"
       /\ ml.exc = ""
       /\ ml.response.status = "OK"
       /\ ml.response.has_recs

===========================================================================
